---- MODULE Spec2Model ----
(***************************************************************************)
(* Model of the Supabase health monitor (supabase_monitor.py, with app.py  *)
(* as its baseline without daily reporting).                               *)
(*                                                                         *)
(* One loop iteration ("tick") of SupabaseMonitor.monitor_loop is one      *)
(* atomic action.  The statements of the iteration are numbered stages;    *)
(* a tick that is cut short by KeyboardInterrupt or by an unexpected       *)
(* exception executes a prefix of the stages and then the handler.         *)
(*                                                                         *)
(* Time: the wall clock is a number of clock units since midnight of day   *)
(* 0; one unit is three hours, so a day has DayLen = 8 units and 09:00 is  *)
(* unit 3.  The clock never runs backwards.                                *)
(***************************************************************************)
EXTENDS Integers, Sequences, FiniteSets, TLC

VARIABLES
    pc,                       \* position of the process in monitor_loop
    now,                      \* the wall clock, datetime.now()
    last_status,              \* self.last_status
    consecutive_failures,     \* self.consecutive_failures
    last_daily_report_date,   \* self.last_daily_report_date
    daily_stats,              \* self.daily_stats
    health_status,            \* the local health_status of monitor_loop
    sent,                     \* notifications handed to Telegram by the last step
    reports,                  \* history: how many daily reports fired on each day
    checked,                  \* history, kept by SpecRollover: on each day, the
                              \* calls of update_daily_stats since the last reset
    config,                   \* SUPABASE_URL, SUPABASE_KEY, TELEGRAM_BOT_TOKEN,
                              \* TELEGRAM_CHAT_ID as read from the environment
    printed,                  \* the errors validate_config has printed
    error_run,                \* history, kept by SpecHistory: the iterations
                              \* classified error in a row, up to the last one
    outage_errors,            \* history, kept by SpecHistory: the length of the
                              \* last run of error iterations since the last
                              \* healthy iteration
    app                       \* the monitor of app.py, run by SpecHistory on
                              \* the probe outcomes of this monitor

vars == <<pc, now, last_status, consecutive_failures, last_daily_report_date,
          daily_stats, health_status, sent, reports, checked,
                   config, printed,
                   error_run, outage_errors, app>>

----------------------------------------------------------------------------
(* Bounds of the model *)

MaxDay == 1          \* the clock runs over days 0..MaxDay
MaxChecks == 6       \* checks_today stays within MaxChecks
MaxFaultChecks == 2  \* the same two bounds where unexpected Exceptions are raised
MaxFaultDay == 1
MinCode == 100       \* the status codes classified are MinCode..MaxCode
MaxCode == 599
MaxSamples == 3      \* checks_today stays within MaxSamples where the
                     \* statistics are taken alone
MaxReported == 12    \* checks_today of the statistics that are reported alone

----------------------------------------------------------------------------
(* Program constants *)

CHECK_INTERVAL == 60
DayLen == 8                  \* clock units (3 h) per calendar day
DAILY_REPORT_TIME == 3       \* dt_time(9, 0) in clock units
None == "None"
NoDate == -1                 \* last_daily_report_date = None
NoTime == -1                 \* response_time = None
NoCode == -1                 \* status_code = None

MaxNow == (MaxDay + 1) * DayLen - 1
Days == 0..MaxDay

Date(t) == t \div DayLen
TimeOfDay(t) == t % DayLen

----------------------------------------------------------------------------
(* The configuration and validate_config *)

Fields == <<"SUPABASE_URL", "SUPABASE_KEY", "TELEGRAM_BOT_TOKEN", "TELEGRAM_CHAT_ID">>

Placeholder(f) ==
    CASE f = "SUPABASE_URL" -> "your_supabase_url_here"
      [] f = "SUPABASE_KEY" -> "your_supabase_anon_key_here"
      [] f = "TELEGRAM_BOT_TOKEN" -> "your_telegram_bot_token_here"
      [] f = "TELEGRAM_CHAT_ID" -> "your_telegram_chat_id_here"

FieldSet == {Fields[i] : i \in DOMAIN Fields}

\* what os.getenv can return for a field: None (not set), the empty string,
\* the placeholder of the field, or a value
Configs ==
    [FieldSet -> {None, "", "value"}
                   \cup {Placeholder(f) : f \in FieldSet}]

Configured == [f \in FieldSet |-> "value"]

\* a variant that reports the first offending field only
validate_config_first_error(cfg) ==
    LET Check(f) == IF cfg[f] \in {None, ""} \/ cfg[f] = Placeholder(f)
                      THEN <<f>>
                      ELSE << >>
        all == Check(Fields[1]) \o Check(Fields[2]) \o Check(Fields[3])
                 \o Check(Fields[4])
    IN  IF all = << >> THEN << >> ELSE <<Head(all)>>

\* validate_config: the list errors, each error named by its field
validate_config(cfg) ==
    LET Check(f) == IF cfg[f] \in {None, ""} \/ cfg[f] = Placeholder(f)
                      THEN <<f>>
                      ELSE << >>
    IN  Check(Fields[1]) \o Check(Fields[2]) \o Check(Fields[3])
          \o Check(Fields[4])

----------------------------------------------------------------------------
(* Inputs of a tick *)

\* what requests.get of the primary endpoint can do: answer with a status
\* code after some elapsed time (microseconds), or raise
Http(code, elapsed) == [kind |-> "http", code |-> code, elapsed |-> elapsed]
Raised(kind) == [kind |-> kind, code |-> NoCode, elapsed |-> 0]
TransportErrors == {"Timeout", "ConnectionError", "RequestException", "Exception"}
Responses ==
    {Http(200, 1496), Http(404, 1496), Raised("Timeout")}

Endpoints == {"Auth", "Realtime", "Storage"}
\* an auxiliary endpoint answers with a status code, or the request raises
\* (NoCode)
AuxInputs ==
    {[e \in Endpoints |-> 200],
     [e \in Endpoints |-> IF e = "Auth" THEN 503 ELSE NoCode]}

\* the times of day at which the process is started (just before and at the
\* report time), and the clock units that can pass while the loop sleeps and
\* while the daily report is posted
SleepSteps == {0, 4}
PostSteps == {0, 1}
StartTimes == {DAILY_REPORT_TIME - 1, DAILY_REPORT_TIME}

----------------------------------------------------------------------------
(* SupabaseMonitor.reset_daily_stats / the dictionary built in __init__ *)

reset_daily_stats ==
    [checks_today |-> 0,
     errors_today |-> 0,
     warnings_today |-> 0,
     total_downtime_minutes |-> 0,
     average_response_time |-> [num |-> 0, den |-> 1],
     response_times |-> << >>]

RECURSIVE SumSeq(_)
SumSeq(s) == IF s = << >> THEN 0 ELSE Head(s) + SumSeq(Tail(s))

\* Python truthiness of health_status.get('response_time'): None and 0 are falsy
Truthy(rt) == rt # NoTime /\ rt # 0

\* a variant that counts downtime for warnings as well
update_daily_stats_downtime_on_warning(stats, hs) ==
    LET s1 == [stats EXCEPT !.checks_today = @ + 1]
        s2 == IF hs.status = "error"
                THEN [s1 EXCEPT !.errors_today = @ + 1,
                                !.total_downtime_minutes = @ + CHECK_INTERVAL \div 60]
                ELSE IF hs.status = "warning"
                       THEN [s1 EXCEPT !.warnings_today = @ + 1,
                                       !.total_downtime_minutes = @ + CHECK_INTERVAL \div 60]
                       ELSE s1
    IN  IF Truthy(hs.response_time)
          THEN LET rts == Append(s2.response_times, hs.response_time)
               IN  [s2 EXCEPT !.response_times = rts,
                              !.average_response_time =
                                  [num |-> SumSeq(rts), den |-> Len(rts)]]
          ELSE s2

\* a variant that averages the old average with the new latency
update_daily_stats_running_average(stats, hs) ==
    LET s1 == [stats EXCEPT !.checks_today = @ + 1]
        s2 == IF hs.status = "error"
                THEN [s1 EXCEPT !.errors_today = @ + 1,
                                !.total_downtime_minutes = @ + CHECK_INTERVAL \div 60]
                ELSE IF hs.status = "warning"
                       THEN [s1 EXCEPT !.warnings_today = @ + 1]
                       ELSE s1
    IN  IF Truthy(hs.response_time)
          THEN LET rts == Append(s2.response_times, hs.response_time)
                   avg == s2.average_response_time
               IN  [s2 EXCEPT !.response_times = rts,
                              !.average_response_time =
                                  IF Len(rts) = 1
                                    THEN [num |-> hs.response_time, den |-> 1]
                                    ELSE [num |-> avg.num + hs.response_time * avg.den,
                                          den |-> 2 * avg.den]]
          ELSE s2

\* SupabaseMonitor.update_daily_stats
update_daily_stats(stats, hs) ==
    LET s1 == [stats EXCEPT !.checks_today = @ + 1]
        s2 == IF hs.status = "error"
                THEN [s1 EXCEPT !.errors_today = @ + 1,
                                !.total_downtime_minutes = @ + CHECK_INTERVAL \div 60]
                ELSE IF hs.status = "warning"
                       THEN [s1 EXCEPT !.warnings_today = @ + 1]
                       ELSE s1
    IN  IF Truthy(hs.response_time)
          THEN LET rts == Append(s2.response_times, hs.response_time)
               IN  [s2 EXCEPT !.response_times = rts,
                              !.average_response_time =
                                  [num |-> SumSeq(rts), den |-> Len(rts)]]
          ELSE s2

\* a variant that is due only after the report time
should_send_after_report_time(t, ldrd) ==
    IF ldrd # Date(t) /\ TimeOfDay(t) > DAILY_REPORT_TIME
      THEN TRUE
      ELSE FALSE

\* SupabaseMonitor.should_send_daily_report, with the clock reading and
\* self.last_daily_report_date as parameters
should_send_daily_report(t, ldrd) ==
    IF ldrd # Date(t) /\ TimeOfDay(t) >= DAILY_REPORT_TIME
      THEN TRUE
      ELSE FALSE

----------------------------------------------------------------------------
(* Notifications *)

\* the text of a notification: its severity, the first line of its body, the
\* failure count and the failed endpoints it names (0 and {} where it names
\* none)
Message(severity, body, failures, failed) ==
    [severity |-> severity, body |-> body, failures |-> failures, failed |-> failed]

\* SupabaseMonitor.send_telegram_alert: the message is stamped with the time
\* and handed to Telegram; whether the POST succeeds or raises
\* (RequestException or any other Exception, both caught), the call returns
\* normally and changes nothing of the monitor
send_telegram_alert(outbox, msg, clock, delivered) ==
    Append(outbox,
           [severity |-> msg.severity, body |-> msg.body, failures |-> msg.failures,
            failed |-> msg.failed, at |-> clock, delivered |-> delivered])

----------------------------------------------------------------------------
(* SupabaseMonitor.check_supabase_health *)

\* round(response_time * 1000, 2): microseconds to hundredths of a millisecond
RoundMs(us) == (us + 5) \div 10

\* a variant that takes 500 for a client error
ClassifyAbove500(code) ==
    IF code = 200 THEN "healthy"
    ELSE IF code > 500 THEN "error"
    ELSE IF code = 401 THEN "error"
    ELSE IF code = 403 THEN "error"
    ELSE IF code >= 400 THEN "warning"
    ELSE "warning"

\* the if/elif chain over response.status_code
ClassifyStatusCode(code) ==
    IF code = 200 THEN "healthy"
    ELSE IF code >= 500 THEN "error"
    ELSE IF code = 401 THEN "error"
    ELSE IF code = 403 THEN "error"
    ELSE IF code >= 400 THEN "warning"
    ELSE "warning"

ErrorMessage(code) ==
    IF code = 200 THEN None
    ELSE IF code >= 500 THEN "Internal server error"
    ELSE IF code = 401 THEN "Authentication failed - check your API key"
    ELSE IF code = 403 THEN "Access forbidden - check permissions"
    ELSE IF code >= 400 THEN "Client error"
    ELSE "Unexpected status code"

InitialHealthStatus ==
    [status |-> "unknown", response_time |-> NoTime,
     error_message |-> None, status_code |-> NoCode]

check_supabase_health(resp) ==
    IF resp.kind = "http"
      THEN [status |-> ClassifyStatusCode(resp.code),
            response_time |-> RoundMs(resp.elapsed),
            error_message |-> ErrorMessage(resp.code),
            status_code |-> resp.code]
      ELSE [InitialHealthStatus EXCEPT
              !.status = "error",
              !.error_message =
                  IF resp.kind = "Timeout" THEN "Request timeout"
                  ELSE IF resp.kind = "ConnectionError" THEN "Connection error"
                  ELSE IF resp.kind = "RequestException" THEN "Request error"
                  ELSE "Unexpected error"]

\* SupabaseMonitor.check_specific_endpoints, and the list of the names of the
\* endpoints whose status is 'error' that monitor_loop derives from it
check_specific_endpoints(aux) ==
    [e \in Endpoints |-> IF aux[e] = 200 THEN "healthy" ELSE "error"]

FailedEndpoints(endpoints_status) ==
    {e \in Endpoints : endpoints_status[e] = "error"}

----------------------------------------------------------------------------
(* One iteration of the while loop of SupabaseMonitor.monitor_loop.        *)
(*                                                                         *)
(* m is the state of the monitor while the iteration runs:                 *)
(*   ls, cf, ldrd, stats  the four attributes of self                      *)
(*   hs                   the local health_status                          *)
(*   out                  the notifications sent so far in this iteration  *)
(*   clock                the wall clock                                   *)
(*   reps                 the history of fired daily reports               *)
(* m0 is m at the top of the iteration, and inp the inputs of the          *)
(* iteration: resp (primary GET), aux (auxiliary GETs), d1 (clock units    *)
(* that pass during the POST of the daily report), delivered (whether the  *)
(* POSTs to Telegram succeed).                                             *)
(***************************************************************************)

\* a variant of the condition that holds back the report on errors only
ReportConditionNotError(m0) ==
    should_send_daily_report(m0.clock, m0.ldrd) /\ m0.ls # "error"

\* the condition of the first if of the loop body
ReportCondition(m0) ==
    should_send_daily_report(m0.clock, m0.ldrd) /\ m0.ls = "healthy"

DailyReportMessage(m) ==
    Message("DAILY_SUCCESS", "Daily Supabase Status Report", 0, {})

\* send_daily_success_report: self.send_telegram_alert(message, "DAILY_SUCCESS")
Stage1(m0, m, inp) ==
    IF ReportCondition(m0)
      THEN [m EXCEPT
              !.out = send_telegram_alert(@, DailyReportMessage(m), m.clock,
                                          inp.delivered),
              !.reps = [@ EXCEPT ![Date(m0.clock)] = IF @ < 2 THEN @ + 1 ELSE @]]
      ELSE m

\* a variant of Stage2 that sets last_daily_report_date only when the report
\* was delivered
Stage2WhenDelivered(m0, m, inp) ==
    IF ReportCondition(m0)
      THEN IF inp.delivered
             THEN [m EXCEPT !.clock = @ + inp.d1,
                            !.ldrd = Date(m.clock + inp.d1)]
             ELSE [m EXCEPT !.clock = @ + inp.d1]
      ELSE m

\* a variant of Stage2 that leaves last_daily_report_date as it is
Stage2KeepsDate(m0, m, inp) ==
    IF ReportCondition(m0)
      THEN [m EXCEPT !.clock = @ + inp.d1]
      ELSE m

\* a variant of Stage2 that sets last_daily_report_date whenever the report
\* is due, sent or not
Stage2AdvancesWhenDue(m0, m, inp) ==
    IF ReportCondition(m0)
      THEN [m EXCEPT !.clock = @ + inp.d1,
                     !.ldrd = Date(m.clock + inp.d1)]
      ELSE IF should_send_daily_report(m0.clock, m0.ldrd)
        THEN [m EXCEPT !.ldrd = Date(m.clock)]
        ELSE m

\* a variant of Stage2 that sets last_daily_report_date in every iteration
Stage2EveryIteration(m0, m, inp) ==
    IF ReportCondition(m0)
      THEN [m EXCEPT !.clock = @ + inp.d1,
                     !.ldrd = Date(m.clock + inp.d1)]
      ELSE [m EXCEPT !.ldrd = Date(m.clock)]

\* send_daily_success_report: self.last_daily_report_date = datetime.now().date()
Stage2(m0, m, inp) ==
    IF ReportCondition(m0)
      THEN [m EXCEPT !.clock = @ + inp.d1,
                     !.ldrd = Date(m.clock + inp.d1)]
      ELSE m

\* a variant of Stage3 that resets the statistics only when the report was
\* delivered
Stage3WhenDelivered(m0, m, inp) ==
    IF ReportCondition(m0) /\ inp.delivered
      THEN [m EXCEPT !.stats = reset_daily_stats]
      ELSE m

\* send_daily_success_report: self.reset_daily_stats()
Stage3(m0, m, inp) ==
    IF ReportCondition(m0)
      THEN [m EXCEPT !.stats = reset_daily_stats]
      ELSE m

\* health_status = self.check_supabase_health()
Stage4(m0, m, inp) ==
    [m EXCEPT !.hs = check_supabase_health(inp.resp)]

\* self.update_daily_stats(health_status)
Stage5(m0, m, inp) ==
    [m EXCEPT !.stats = update_daily_stats(@, m.hs)]

\* a variant of Stage6 that starts a new count after the fifth failure
Stage6RestartsAfterFive(m0, m, inp) ==
    IF m.hs.status = "error"
      THEN [m EXCEPT !.cf = IF @ >= 5 THEN 1 ELSE @ + 1]
      ELSE m

\* a variant of Stage6 that assigns last_status where current_status is read,
\* before the alert logic
Stage6AssignsStatus(m0, m, inp) ==
    IF m.hs.status = "error"
      THEN [m EXCEPT !.cf = @ + 1, !.ls = m.hs.status]
      ELSE [m EXCEPT !.ls = m.hs.status]

\* if current_status == 'error': self.consecutive_failures += 1
Stage6(m0, m, inp) ==
    IF m.hs.status = "error"
      THEN [m EXCEPT !.cf = @ + 1]
      ELSE m

\* a variant that alerts on every failure
ErrorAlertEveryFailure(cf) ==
    cf >= 1

\* the condition under which the error branch alerts
ErrorAlertCondition(cf) ==
    cf = 1 \/ cf % 5 = 0

\* a variant that recovers from errors only
RecoveryFromErrorOnly(ls, current_status) ==
    ls = "error" /\ current_status = "healthy"

\* the condition under which the else branch sends the recovery alert
RecoveryCondition(ls, current_status) ==
    ls \in {"error", "warning"} /\ current_status = "healthy"

\* a variant of Stage7 that sends the WARNING alert only when the status
\* changes to warning
Stage7WarningOnChange(m0, m, inp) ==
    LET failed == FailedEndpoints(check_specific_endpoints(inp.aux))
    IN  IF m.hs.status = "error"
          THEN IF ErrorAlertCondition(m.cf)
                 THEN [m EXCEPT !.out = send_telegram_alert(@,
                          Message("ERROR", "Supabase API is DOWN!", m.cf, failed),
                          m.clock, inp.delivered)]
                 ELSE m
        ELSE IF m.hs.status = "warning"
          THEN IF m.ls # "warning"
                 THEN [m EXCEPT !.out = send_telegram_alert(@,
                          Message("WARNING", "Supabase API Warning!", 0, {}),
                          m.clock, inp.delivered)]
                 ELSE m
        ELSE IF RecoveryCondition(m.ls, m.hs.status)
          THEN [m EXCEPT !.out = send_telegram_alert(@,
                   Message("INFO", "Supabase API is back online!", m.cf, {}),
                   m.clock, inp.delivered)]
        ELSE m

\* the self.send_telegram_alert call of the branch taken
Stage7(m0, m, inp) ==
    LET failed == FailedEndpoints(check_specific_endpoints(inp.aux))
    IN  IF m.hs.status = "error"
          THEN IF ErrorAlertCondition(m.cf)
                 THEN [m EXCEPT !.out = send_telegram_alert(@,
                          Message("ERROR", "Supabase API is DOWN!", m.cf, failed),
                          m.clock, inp.delivered)]
                 ELSE m
        ELSE IF m.hs.status = "warning"
          THEN [m EXCEPT !.out = send_telegram_alert(@,
                   Message("WARNING", "Supabase API Warning!", 0, {}),
                   m.clock, inp.delivered)]
        ELSE IF RecoveryCondition(m.ls, m.hs.status)
          THEN [m EXCEPT !.out = send_telegram_alert(@,
                   Message("INFO", "Supabase API is back online!", m.cf, {}),
                   m.clock, inp.delivered)]
        ELSE m

\* a variant of Stage8 without the reset of the warning branch
Stage8NoWarningReset(m0, m, inp) ==
    IF m.hs.status \in {"error", "warning"}
      THEN m
      ELSE [m EXCEPT !.cf = 0]

\* self.consecutive_failures = 0 of the warning branch and of the else branch
Stage8(m0, m, inp) ==
    IF m.hs.status = "error"
      THEN m
      ELSE [m EXCEPT !.cf = 0]

\* self.last_status = current_status
Stage9(m0, m, inp) ==
    [m EXCEPT !.ls = m.hs.status]

LastStage == 9

\* the iteration run through its first k stages
Run(k, m0, inp) ==
    LET m1 == Stage1(m0, m0, inp)
        m2 == Stage2(m0, m1, inp)
        m3 == Stage3(m0, m2, inp)
        m4 == Stage4(m0, m3, inp)
        m5 == Stage5(m0, m4, inp)
        m6 == Stage6(m0, m5, inp)
        m7 == Stage7(m0, m6, inp)
        m8 == Stage8(m0, m7, inp)
        m9 == Stage9(m0, m8, inp)
    IN  CASE k = 0 -> m0 [] k = 1 -> m1 [] k = 2 -> m2 [] k = 3 -> m3
          [] k = 4 -> m4 [] k = 5 -> m5 [] k = 6 -> m6 [] k = 7 -> m7
          [] k = 8 -> m8 [] k = 9 -> m9

----------------------------------------------------------------------------
(* The monitor of app.py: SupabaseMonitor.__init__ and an iteration of its *)
(* monitor_loop, which has no daily report and no statistics               *)

AppInit ==
    [last_status |-> None, consecutive_failures |-> 0, out |-> << >>]

\* a variant in which the warning branch leaves consecutive_failures
AppIterationNoWarningReset(a, inp) ==
    LET current == check_supabase_health(inp.resp)
        endpoints_status == check_specific_endpoints(inp.aux)
        current_status == current.status
    IN  IF current_status = "error"
          THEN LET cf == a.consecutive_failures + 1
               IN  [last_status |-> current_status,
                    consecutive_failures |-> cf,
                    out |-> IF cf = 1 \/ cf % 5 = 0
                              THEN send_telegram_alert(<< >>,
                                     Message("ERROR", "Supabase API is DOWN!", cf,
                                             FailedEndpoints(endpoints_status)),
                                     inp.at, inp.delivered)
                              ELSE << >>]
        ELSE IF current_status = "warning"
          THEN [last_status |-> current_status,
                consecutive_failures |-> a.consecutive_failures,
                out |-> send_telegram_alert(<< >>,
                          Message("WARNING", "Supabase API Warning!", 0, {}),
                          inp.at, inp.delivered)]
        ELSE [last_status |-> current_status,
              consecutive_failures |-> 0,
              out |-> IF a.last_status \in {"error", "warning"}
                        THEN send_telegram_alert(<< >>,
                               Message("INFO", "Supabase API is back online!",
                                       a.consecutive_failures, {}),
                               inp.at, inp.delivered)
                        ELSE << >>]

\* the body of the try of monitor_loop of app.py, from check_supabase_health
\* to self.last_status = current_status
AppIteration(a, inp) ==
    LET current == check_supabase_health(inp.resp)
        endpoints_status == check_specific_endpoints(inp.aux)
        current_status == current.status
    IN  IF current_status = "error"
          THEN LET cf == a.consecutive_failures + 1
               IN  [last_status |-> current_status,
                    consecutive_failures |-> cf,
                    out |-> IF cf = 1 \/ cf % 5 = 0
                              THEN send_telegram_alert(<< >>,
                                     Message("ERROR", "Supabase API is DOWN!", cf,
                                             FailedEndpoints(endpoints_status)),
                                     inp.at, inp.delivered)
                              ELSE << >>]
        ELSE IF current_status = "warning"
          THEN [last_status |-> current_status,
                consecutive_failures |-> 0,
                out |-> send_telegram_alert(<< >>,
                          Message("WARNING", "Supabase API Warning!", 0, {}),
                          inp.at, inp.delivered)]
        ELSE [last_status |-> current_status,
              consecutive_failures |-> 0,
              out |-> IF a.last_status \in {"error", "warning"}
                        THEN send_telegram_alert(<< >>,
                               Message("INFO", "Supabase API is back online!",
                                       a.consecutive_failures, {}),
                               inp.at, inp.delivered)
                        ELSE << >>]

----------------------------------------------------------------------------
(* The process *)

Machine ==
    [ls |-> last_status, cf |-> consecutive_failures,
     ldrd |-> last_daily_report_date, stats |-> daily_stats,
     hs |-> health_status, out |-> << >>, clock |-> now, reps |-> reports]

\* the inputs an iteration reads in its first k stages: the clock at stage 2
\* of a report, the primary GET at stage 4, the auxiliary sweep for the alert
\* of stage 7; the inputs it does not get to read are not drawn
Inputs(k) ==
    [resp : IF k >= 4 THEN Responses ELSE {Raised("Timeout")},
     aux : IF k >= 7 THEN AuxInputs ELSE {[e \in Endpoints |-> 200]},
     d1 : IF k >= 2 /\ ReportCondition(Machine) THEN PostSteps ELSE {0},
     delivered : BOOLEAN]

\* the monitor takes the state m, in which the iteration ended
Store(m) ==
    /\ last_status' = m.ls
    /\ consecutive_failures' = m.cf
    /\ last_daily_report_date' = m.ldrd
    /\ daily_stats' = m.stats
    /\ health_status' = m.hs
    /\ reports' = m.reps
    /\ now' = m.clock

\* the bounds: the counters of the day stay within MaxChecks, the clock
\* within MaxNow
WithinBounds(k, m) ==
    /\ k >= 5 => m.stats.checks_today <= MaxChecks
    /\ m.clock <= MaxNow

\* SupabaseMonitor.__init__
Init ==
    /\ pc = "start"
    /\ now \in StartTimes
    /\ last_status = None
    /\ consecutive_failures = 0
    /\ last_daily_report_date = NoDate
    /\ daily_stats = reset_daily_stats
    /\ health_status = InitialHealthStatus
    /\ sent = << >>
    /\ reports = [d \in Days |-> 0]
    /\ checked = [d \in Days |-> 0]
    /\ config = Configured
    /\ printed = << >>
    /\ error_run = 0
    /\ outage_errors = 0
    /\ app = AppInit

\* monitor_loop before the loop: the 'monitoring started' notification
Startup ==
    /\ pc = "start"
    /\ \E delivered \in BOOLEAN :
         sent' = send_telegram_alert(<< >>,
                    Message("INFO", "Supabase monitoring started successfully!", 0, {}),
                    now, delivered)
    /\ pc' = "top"
    /\ UNCHANGED <<now, last_status, consecutive_failures, last_daily_report_date,
                   daily_stats, health_status, reports, checked,
                   config, printed,
                   error_run, outage_errors, app>>

\* an iteration that runs to time.sleep(CHECK_INTERVAL)
Iteration ==
    /\ pc = "top"
    /\ \E inp \in Inputs(LastStage) :
         \E m \in {Run(LastStage, Machine, inp)} :
           /\ WithinBounds(LastStage, m)
           /\ Store(m)
           /\ sent' = m.out
    /\ pc' = "sleeping"

Tick ==
    /\ Iteration
    /\ UNCHANGED <<checked, config, printed,
                   error_run, outage_errors, app>>

\* time.sleep(CHECK_INTERVAL) returns
Sleep ==
    /\ pc = "sleeping"
    /\ \E d \in SleepSteps :
         /\ now + d <= MaxNow
         /\ now' = now + d
    /\ pc' = "top"
    /\ sent' = << >>
    /\ UNCHANGED <<last_status, consecutive_failures, last_daily_report_date,
                   daily_stats, health_status, reports, checked,
                   config, printed,
                   error_run, outage_errors, app>>

StoppedMessage == Message("INFO", "Supabase monitoring stopped by user", 0, {})
MonitorErrorMessage == Message("ERROR", "Monitor error", 0, {})

\* KeyboardInterrupt while the loop sleeps: the handler logs, sends the
\* 'stopped' notification and breaks
SleepInterrupted ==
    /\ pc = "sleeping"
    /\ \E delivered \in BOOLEAN :
         sent' = send_telegram_alert(<< >>, StoppedMessage, now, delivered)
    /\ pc' = "stopped"
    /\ UNCHANGED <<now, last_status, consecutive_failures, last_daily_report_date,
                   daily_stats, health_status, reports, checked,
                   config, printed,
                   error_run, outage_errors, app>>

\* an iteration in which KeyboardInterrupt is raised after k stages; the
\* handler as in SleepInterrupted
TickInterrupted ==
    /\ pc = "top"
    /\ \E k \in 0..LastStage :
         \E inp \in Inputs(k) :
           \E m \in {Run(k, Machine, inp)} :
             /\ WithinBounds(k, m)
             /\ Store(m)
             /\ sent' = send_telegram_alert(m.out, StoppedMessage, m.clock,
                                           inp.delivered)
    /\ pc' = "stopped"
    /\ UNCHANGED <<checked, config, printed,
                   error_run, outage_errors, app>>

\* a variant in which the unexpected Exception is reported and raised again
TickFailedRaises ==
    /\ pc = "top"
    /\ \E k \in 0..LastStage :
         \E inp \in Inputs(k) :
           \E m \in {Run(k, Machine, inp)} :
             /\ WithinBounds(k, m)
             /\ Store(m)
             /\ sent' = send_telegram_alert(m.out, MonitorErrorMessage, m.clock,
                                           inp.delivered)
    /\ pc' = "crashed"
    /\ UNCHANGED <<checked, config, printed,
                   error_run, outage_errors, app>>

\* an iteration in which an unexpected Exception is raised after k stages:
\* the handler logs, sends the 'Monitor error' notification and sleeps
TickFailed ==
    /\ pc = "top"
    /\ \E k \in 0..LastStage :
         \E inp \in Inputs(k) :
           \E m \in {Run(k, Machine, inp)} :
             /\ WithinBounds(k, m)
             /\ Store(m)
             /\ sent' = send_telegram_alert(m.out, MonitorErrorMessage, m.clock,
                                           inp.delivered)
    /\ pc' = "errsleeping"
    /\ UNCHANGED <<checked, config, printed,
                   error_run, outage_errors, app>>

\* the time.sleep(CHECK_INTERVAL) of the handler of Exception returns
ErrSleep ==
    /\ pc = "errsleeping"
    /\ \E d \in SleepSteps :
         /\ now + d <= MaxNow
         /\ now' = now + d
    /\ pc' = "top"
    /\ sent' = << >>
    /\ UNCHANGED <<last_status, consecutive_failures, last_daily_report_date,
                   daily_stats, health_status, reports, checked,
                   config, printed,
                   error_run, outage_errors, app>>

\* KeyboardInterrupt while the handler of Exception sleeps: it is raised
\* inside an except clause, no handler of monitor_loop catches it, and the
\* process ends with the traceback
ErrSleepInterrupted ==
    /\ pc = "errsleeping"
    /\ pc' = "crashed"
    /\ sent' = << >>
    /\ UNCHANGED <<now, last_status, consecutive_failures, last_daily_report_date,
                   daily_stats, health_status, reports, checked,
                   config, printed,
                   error_run, outage_errors, app>>

\* the process under cancellation alone: no statement of the loop body
\* raises an unexpected Exception
Next ==
    \/ Startup
    \/ Tick
    \/ Sleep
    \/ SleepInterrupted
    \/ TickInterrupted

Spec == Init /\ [][Next]_vars

\* the process with unexpected Exceptions in the loop body, within the
\* bounds MaxFaultChecks and MaxFaultDay
FaultBound ==
    /\ daily_stats'.checks_today <= MaxFaultChecks
    /\ now' <= (MaxFaultDay + 1) * DayLen - 1

NextFaults ==
    \/ Startup /\ FaultBound
    \/ Tick /\ FaultBound
    \/ Sleep /\ FaultBound
    \/ SleepInterrupted /\ FaultBound
    \/ TickInterrupted /\ FaultBound
    \/ TickFailed /\ FaultBound
    \/ ErrSleep /\ FaultBound
    \/ ErrSleepInterrupted /\ FaultBound

SpecFaults == Init /\ [][NextFaults]_vars

\* the process with unexpected Exceptions and without cancellation, within
\* the same bounds; a call of time.sleep returns
NextLive ==
    \/ Startup /\ FaultBound
    \/ Tick /\ FaultBound
    \/ Sleep /\ FaultBound
    \/ TickFailed /\ FaultBound
    \/ ErrSleep /\ FaultBound

SpecLive ==
    /\ Init
    /\ [][NextLive]_vars
    /\ WF_vars(Sleep /\ FaultBound)
    /\ WF_vars(ErrSleep /\ FaultBound)

----------------------------------------------------------------------------
(* check_supabase_health alone, on every status code of MinCode..MaxCode    *)
(* and every transport error                                               *)

ProbeResponses ==
    {Http(code, elapsed) : code \in MinCode..MaxCode, elapsed \in {4, 1496}}
    \cup {Raised(kind) : kind \in TransportErrors}

Probe ==
    /\ pc = "start"
    /\ health_status = InitialHealthStatus
    /\ \E resp \in ProbeResponses :
         health_status' = check_supabase_health(resp)
    /\ UNCHANGED <<pc, now, last_status, consecutive_failures,
                   last_daily_report_date, daily_stats, sent, reports,
                   checked,
                   config, printed,
                   error_run, outage_errors, app>>

NextClassify == Probe

SpecClassify == Init /\ [][NextClassify]_vars

----------------------------------------------------------------------------
(* The first statement of the loop body alone (the report condition and    *)
(* send_daily_success_report), at every time of the clock, from every      *)
(* last_daily_report_date and every last_status                            *)

InitReport ==
    /\ pc = "top"
    /\ now \in 0..MaxNow
    /\ last_status \in {None, "healthy", "warning", "error"}
    /\ consecutive_failures = (IF last_status = "error" THEN 1 ELSE 0)
    /\ last_daily_report_date \in {NoDate} \cup Days
    /\ daily_stats = reset_daily_stats
    /\ health_status = InitialHealthStatus
    /\ sent = << >>
    /\ reports = [d \in Days |-> 0]
    /\ checked = [d \in Days |-> 0]
    /\ config = Configured
    /\ printed = << >>
    /\ error_run = 0
    /\ outage_errors = 0
    /\ app = AppInit

ReportStep ==
    /\ pc = "top"
    /\ \E inp \in Inputs(3) :
         \E m \in {Run(3, Machine, inp)} :
           /\ WithinBounds(3, m)
           /\ Store(m)
           /\ sent' = m.out
    /\ pc' = "probing"
    /\ UNCHANGED <<checked, config, printed,
                   error_run, outage_errors, app>>

NextReport == ReportStep

SpecReport == InitReport /\ [][NextReport]_vars

----------------------------------------------------------------------------
(* The loop without cancellation, with the history of the calls of         *)
(* update_daily_stats: an iteration that sends the report calls            *)
(* reset_daily_stats, which clears the history, and every iteration calls  *)
(* update_daily_stats once, on the date of its clock                       *)

TickCounted ==
    /\ Iteration
    /\ checked' = [(IF ReportCondition(Machine)
                      THEN [d \in Days |-> 0]
                      ELSE checked) EXCEPT ![Date(now')] = @ + 1]
    /\ UNCHANGED <<config, printed,
                   error_run, outage_errors, app>>

NextRollover ==
    \/ Startup
    \/ TickCounted
    \/ Sleep

SpecRollover == Init /\ [][NextRollover]_vars

----------------------------------------------------------------------------
(* The loop without cancellation, with the history of the classifications  *)
(* of its iterations, and beside it the monitor of app.py, which in each   *)
(* iteration gets the same outcomes of the primary GET, of the auxiliary   *)
(* sweep and of the POST to Telegram                                       *)

TickTraced ==
    /\ pc = "top"
    /\ \E inp \in Inputs(LastStage) :
         \E m \in {Run(LastStage, Machine, inp)} :
           /\ WithinBounds(LastStage, m)
           /\ Store(m)
           /\ sent' = m.out
           /\ error_run' = IF m.hs.status = "error" THEN error_run + 1 ELSE 0
           /\ outage_errors' =
                IF m.hs.status = "error"
                  THEN IF last_status = "error" THEN outage_errors + 1 ELSE 1
                ELSE IF m.hs.status = "warning"
                  THEN outage_errors
                ELSE 0
           /\ app' = AppIteration(app, [resp |-> inp.resp, aux |-> inp.aux,
                                        delivered |-> inp.delivered, at |-> now])
    /\ pc' = "sleeping"
    /\ UNCHANGED <<checked, config, printed>>

NextHistory ==
    \/ Startup
    \/ TickTraced
    \/ Sleep

SpecHistory == Init /\ [][NextHistory]_vars

----------------------------------------------------------------------------
(* The statistics alone: update_daily_stats on the outcomes of probes with *)
(* different latencies (0, 100, 200 and 300 ms), and reset_daily_stats     *)

SampleResponses ==
    {Http(200, 4), Http(200, 100000), Http(200, 200000), Http(200, 300000),
     Http(404, 100000), Http(500, 200000), Raised("Timeout")}

\* health_status = self.check_supabase_health()
\* self.update_daily_stats(health_status)
Record ==
    /\ pc \in {"start", "recorded"}
    /\ daily_stats.checks_today < MaxSamples
    /\ \E resp \in SampleResponses :
         /\ health_status' = check_supabase_health(resp)
         /\ daily_stats' = update_daily_stats(daily_stats, health_status')
    /\ pc' = "recorded"
    /\ UNCHANGED <<now, last_status, consecutive_failures,
                   last_daily_report_date, sent, reports, checked,
                   config, printed,
                   error_run, outage_errors, app>>

\* self.reset_daily_stats()
ResetStats ==
    /\ pc = "recorded"
    /\ daily_stats' = reset_daily_stats
    /\ pc' = "start"
    /\ UNCHANGED <<now, last_status, consecutive_failures,
                   last_daily_report_date, health_status, sent, reports,
                   checked,
                   config, printed,
                   error_run, outage_errors, app>>

NextStats ==
    \/ Record
    \/ ResetStats

SpecStats == Init /\ [][NextStats]_vars

----------------------------------------------------------------------------
(* send_daily_success_report alone, with the numbers of its message, on    *)
(* the statistics of e checks that failed followed by h healthy checks     *)

\* an error percentage in place of the uptime percentage
error_percentage(stats) ==
    LET d == IF stats.checks_today > 1 THEN stats.checks_today ELSE 1
    IN  [num |-> stats.errors_today * 100, den |-> d]

\* uptime_percentage = 100 - (errors_today / max(checks_today, 1) * 100),
\* as the fraction num / den
uptime_percentage(stats) ==
    LET d == IF stats.checks_today > 1 THEN stats.checks_today ELSE 1
    IN  [num |-> 100 * d - stats.errors_today * 100, den |-> d]

\* the numbers of the message of the daily report
ReportText(stats) ==
    [severity |-> "DAILY_SUCCESS",
     checks |-> stats.checks_today,
     uptime |-> uptime_percentage(stats),
     errors |-> stats.errors_today,
     warnings |-> stats.warnings_today,
     downtime |-> stats.total_downtime_minutes,
     average |-> stats.average_response_time]

\* the statistics that update_daily_stats leaves after e checks that timed
\* out and h healthy checks of 100 ms, from the zero-state
StatsAfter(e, h) ==
    [checks_today |-> e + h,
     errors_today |-> e,
     warnings_today |-> 0,
     total_downtime_minutes |-> e * (CHECK_INTERVAL \div 60),
     average_response_time |->
         IF h = 0 THEN [num |-> 0, den |-> 1] ELSE [num |-> h * 10000, den |-> h],
     response_times |-> [i \in 1..h |-> 10000]]

ReportedStats ==
    UNION {{StatsAfter(e, c - e) : e \in 0..c} : c \in 0..MaxReported}
    \cup {StatsAfter(5, 95)}

InitUptime ==
    /\ pc = "start"
    /\ now = DAILY_REPORT_TIME
    /\ last_status = None
    /\ consecutive_failures = 0
    /\ last_daily_report_date = NoDate
    /\ daily_stats \in ReportedStats
    /\ health_status = InitialHealthStatus
    /\ sent = << >>
    /\ reports = [d \in Days |-> 0]
    /\ checked = [d \in Days |-> 0]
    /\ config = Configured
    /\ printed = << >>
    /\ error_run = 0
    /\ outage_errors = 0
    /\ app = AppInit

\* SupabaseMonitor.send_daily_success_report
SendReport ==
    /\ pc = "start"
    /\ sent' = <<ReportText(daily_stats)>>
    /\ last_daily_report_date' = Date(now)
    /\ daily_stats' = reset_daily_stats
    /\ pc' = "reported"
    /\ UNCHANGED <<now, last_status, consecutive_failures, health_status,
                   reports, checked,
                   config, printed,
                   error_run, outage_errors, app>>

NextUptime == SendReport

SpecUptime == InitUptime /\ [][NextUptime]_vars

----------------------------------------------------------------------------
(* The start of the program: validate_config on every configuration, then  *)
(* SupabaseMonitor() and the start of monitor_loop                         *)

InitConfig ==
    /\ pc = "main"
    /\ now \in StartTimes
    /\ last_status = None
    /\ consecutive_failures = 0
    /\ last_daily_report_date = NoDate
    /\ daily_stats = reset_daily_stats
    /\ health_status = InitialHealthStatus
    /\ sent = << >>
    /\ reports = [d \in Days |-> 0]
    /\ checked = [d \in Days |-> 0]
    /\ config \in Configs
    /\ printed = << >>
    /\ error_run = 0
    /\ outage_errors = 0
    /\ app = AppInit

\* validate_config() of __main__: with errors they are printed and
\* sys.exit(1) ends the program; without, SupabaseMonitor() is constructed
Validate ==
    /\ pc = "main"
    /\ LET errors == validate_config(config)
       IN  IF errors # << >>
             THEN /\ printed' = errors
                  /\ pc' = "exit 1"
             ELSE /\ printed' = printed
                  /\ pc' = "start"
    /\ UNCHANGED <<now, last_status, consecutive_failures,
                   last_daily_report_date, daily_stats, health_status, sent,
                   reports, checked, config,
                   error_run, outage_errors, app>>

NextConfig ==
    \/ Validate
    \/ Startup

SpecConfig == InitConfig /\ [][NextConfig]_vars

----------------------------------------------------------------------------
(* Properties *)

\* the step is an iteration of the loop that ran to its sleep
TickStep == pc = "top" /\ pc' = "sleeping"

\* the notifications of severity sev among msgs
WithSeverity(msgs, sev) == {i \in DOMAIN msgs : msgs[i].severity = sev}

\* C1: in every iteration whose primary classification is error,
\* consecutive_failures grows by one, and an ERROR alert is sent exactly when
\* the new count is 1 or a multiple of 5
C1_ErrorAlertOnFirstAndEveryFifth ==
    [][(TickStep /\ health_status'.status = "error")
         => /\ consecutive_failures' = consecutive_failures + 1
            /\ (WithSeverity(sent', "ERROR") # {})
                 <=> (\/ consecutive_failures' = 1
                      \/ \E n \in 1..MaxChecks : consecutive_failures' = 5 * n)]_vars

\* C1, witness: the fifth consecutive failure has alerted
C1_Witness ==
    /\ pc = "sleeping"
    /\ health_status.status = "error"
    /\ consecutive_failures = 5
    /\ \E i \in WithSeverity(sent, "ERROR") : sent[i].failures = 5

\* C2: after every iteration whose primary classification is not error,
\* consecutive_failures is 0
C2_FailuresResetOnNonError ==
    (pc = "sleeping" /\ health_status.status # "error")
      => consecutive_failures = 0

\* C2, witness: a warning ends a run of three failures, and the count is 0
C2_Witness ==
    /\ pc = "sleeping"
    /\ health_status.status = "warning"
    /\ last_status = "warning"
    /\ daily_stats.checks_today = 4
    /\ daily_stats.errors_today = 3
    /\ consecutive_failures = 0

\* C3: an iteration sends the INFO recovery alert exactly when its
\* classification is healthy and last_status, the classification of the
\* iteration before it, is error or warning
C3_RecoveryAlertIffWasFailing ==
    [][TickStep
         => ((WithSeverity(sent', "INFO") # {})
               <=> (/\ health_status'.status = "healthy"
                    /\ last_status \in {"error", "warning"}))]_vars

\* C3, witness: a healthy iteration after a warning has sent the recovery alert
C3_Witness ==
    /\ pc = "sleeping"
    /\ health_status.status = "healthy"
    /\ daily_stats.warnings_today = 1
    /\ daily_stats.errors_today = 0
    /\ \E i \in WithSeverity(sent, "INFO") : sent[i].body = "Supabase API is back online!"

\* C4: every iteration whose primary classification is warning sends exactly
\* one WARNING alert
C4_EveryWarningAlerts ==
    (pc = "sleeping" /\ health_status.status = "warning")
      => Cardinality(WithSeverity(sent, "WARNING")) = 1

\* C4, witness: the third of three consecutive warnings has alerted
C4_Witness ==
    /\ pc = "sleeping"
    /\ health_status.status = "warning"
    /\ daily_stats.checks_today = 3
    /\ daily_stats.warnings_today = 3
    /\ WithSeverity(sent, "WARNING") # {}

\* the table of the classification by status code
StatusTable(code) ==
    CASE code = 200 -> "healthy"
      [] code >= 500 -> "error"
      [] code = 401 -> "error"
      [] code = 403 -> "error"
      [] code \in 400..499 /\ code \notin {401, 403} -> "warning"
      [] OTHER -> "warning"

\* C5: whenever the primary GET returned a status code, the status of the
\* health check is the one the table gives for that code, whatever the
\* latency
C5_ClassificationByTable ==
    health_status.status_code # NoCode
      => health_status.status = StatusTable(health_status.status_code)

\* C5, witness: a 500 has been classified error
C5_Witness ==
    /\ pc = "start"
    /\ health_status.status_code = 500
    /\ health_status.status = "error"

\* C6: should_send_daily_report is false when the date of the clock is
\* last_daily_report_date, true when it differs (None included) and the time
\* of day is 09:00 or later, and false when the time of day is before 09:00
C6_ReportDueByDateAndTime ==
    LET due == should_send_daily_report(now, last_daily_report_date)
    IN  /\ Date(now) = last_daily_report_date => ~due
        /\ (Date(now) # last_daily_report_date /\ TimeOfDay(now) >= DAILY_REPORT_TIME)
             => due
        /\ TimeOfDay(now) < DAILY_REPORT_TIME => ~due

\* C6, witness: the report was due at 09:00 sharp with a report date of
\* another day, it has been sent, and it is due no more
C6_Witness ==
    /\ pc = "probing"
    /\ \E i \in WithSeverity(sent, "DAILY_SUCCESS") :
         TimeOfDay(sent[i].at) = DAILY_REPORT_TIME
    /\ last_daily_report_date = Date(now)
    /\ ~should_send_daily_report(now, last_daily_report_date)

\* the step sends a DAILY_SUCCESS notification
ReportSent ==
    WithSeverity(sent', "DAILY_SUCCESS") # {}

\* C7: over every run (the clock never goes back) at most one daily report
\* is sent per calendar day, and every daily report is sent at a time of day
\* at or after 09:00
C7_AtMostOneReportPerDay ==
    /\ \A d \in Days : reports[d] <= 1
    /\ \A i \in WithSeverity(sent, "DAILY_SUCCESS") :
         TimeOfDay(sent[i].at) >= DAILY_REPORT_TIME

\* C7, witness: one report was sent on each of two days, the second by the
\* iteration that has just run
C7_Witness ==
    /\ pc = "sleeping"
    /\ reports[0] = 1
    /\ reports[1] = 1
    /\ WithSeverity(sent, "DAILY_SUCCESS") # {}

\* C8: an iteration sends the daily report if and only if, when it starts,
\* should_send_daily_report is true and last_status is healthy; no step sends
\* one while last_status is error, warning or None
C8_ReportIffDueAndHealthy ==
    [][LET due == should_send_daily_report(now, last_daily_report_date)
       IN  /\ ReportSent => (pc = "top" /\ due /\ last_status = "healthy")
           /\ (TickStep /\ due /\ last_status = "healthy") => ReportSent]_vars

\* C8, witness: an iteration has sent the report and has then classified
\* the backend as error
C8_Witness ==
    /\ pc = "sleeping"
    /\ WithSeverity(sent, "DAILY_SUCCESS") # {}
    /\ health_status.status = "error"
    /\ last_status = "error"

\* C9 as stated: a due report remains due at every later step while
\* last_status is not healthy
C9_DueUntilHealthy ==
    [][(/\ should_send_daily_report(now, last_daily_report_date)
        /\ last_status # "healthy")
       => should_send_daily_report(now', last_daily_report_date')]_vars

\* C9, amended: a due report that a step does not send is due after the step
\* unless the time of day is then before 09:00 (the clock has passed
\* midnight); and an iteration that starts while the report is due and
\* last_status is healthy sends it
C9_DueUntilSentOrMidnight ==
    [][/\ (/\ should_send_daily_report(now, last_daily_report_date)
           /\ ~ReportSent)
          => \/ should_send_daily_report(now', last_daily_report_date')
             \/ TimeOfDay(now') < DAILY_REPORT_TIME
       /\ (/\ TickStep
           /\ should_send_daily_report(now, last_daily_report_date)
           /\ last_status = "healthy")
          => ReportSent]_vars

\* C9, witness: no report was sent on day 0, on which the backend was never
\* seen healthy, and at the top of an iteration of day 1 the report is due
\* and last_status is error
C9_Witness ==
    /\ pc = "top"
    /\ Date(now) = 1
    /\ reports[0] = 0
    /\ last_daily_report_date = NoDate
    /\ last_status = "error"
    /\ daily_stats.errors_today >= 2
    /\ should_send_daily_report(now, last_daily_report_date)

\* C10: last_daily_report_date changes only in an iteration that sends the
\* daily report, no other step changes it, and each change moves it to a
\* date not earlier than the one before
C10_ReportDateOnlyForward ==
    [][last_daily_report_date' # last_daily_report_date
       => /\ pc = "top"
          /\ ReportSent
          /\ last_daily_report_date' >= last_daily_report_date]_vars

\* C10, witness: the report of day 0 had set last_daily_report_date to day
\* 0, and an iteration of day 1 has sent the report, set it to day 1 and was
\* then ended by an unexpected Exception
C10_Witness ==
    /\ pc = "errsleeping"
    /\ reports[0] = 1
    /\ reports[1] = 1
    /\ last_daily_report_date = 1
    /\ WithSeverity(sent, "DAILY_SUCCESS") # {}

\* C11: the statistics are per-day counters: when an iteration has run,
\* checks_today is the number of checks recorded since midnight or since
\* the last daily report, whichever is later, and errors_today,
\* warnings_today, total_downtime_minutes and response_times hold nothing
\* recorded before, also when no daily report was sent
C11_StatsOfTodayOnly ==
    pc = "sleeping"
      => /\ daily_stats.checks_today = checked[Date(now)]
         /\ daily_stats.errors_today + daily_stats.warnings_today
              <= checked[Date(now)]
         /\ daily_stats.total_downtime_minutes
              <= checked[Date(now)] * (CHECK_INTERVAL \div 60)
         /\ Len(daily_stats.response_times) <= checked[Date(now)]

\* the step is a call of update_daily_stats with the outcome health_status'
RecordStep ==
    pc' = "recorded"

\* C12: update_daily_stats adds 1 to checks_today for every outcome; for
\* error it adds 1 to errors_today and CHECK_INTERVAL/60 to
\* total_downtime_minutes; for warning it adds 1 to warnings_today and
\* nothing else; for healthy it changes none of the three; and for every
\* outcome with a latency (any value >= 0) it appends the latency to
\* response_times and recomputes average_response_time
C12_RecordCountsOutcome ==
    [][RecordStep =>
        LET o == health_status'
            old == daily_stats
            new == daily_stats'
            errs == IF o.status = "error" THEN 1 ELSE 0
            warns == IF o.status = "warning" THEN 1 ELSE 0
        IN  /\ new.checks_today = old.checks_today + 1
            /\ new.errors_today = old.errors_today + errs
            /\ new.total_downtime_minutes
                 = old.total_downtime_minutes + errs * (CHECK_INTERVAL \div 60)
            /\ new.warnings_today = old.warnings_today + warns
            /\ (o.response_time # NoTime /\ o.response_time >= 0)
                 => /\ new.response_times
                         = Append(old.response_times, o.response_time)
                    /\ new.average_response_time.num * Len(new.response_times)
                         = SumSeq(new.response_times)
                             * new.average_response_time.den]_vars

\* C13: an iteration that sends the daily report sets
\* last_daily_report_date to the date of the clock and resets the statistics
\* to the zero-state, delivered or not: when the iteration has run, the
\* statistics hold its own check and nothing else
C13_ReportSetsDateAndResets ==
    [][(TickStep /\ ReportSent)
       => /\ last_daily_report_date' = Date(now')
          /\ daily_stats' = update_daily_stats(reset_daily_stats, health_status')
          /\ daily_stats'.checks_today = 1]_vars

\* C13, witness: the report was sent and not delivered, after more than one
\* check, and the statistics hold the one check made after it
C13_Witness ==
    /\ pc = "sleeping"
    /\ \E i \in WithSeverity(sent, "DAILY_SUCCESS") : ~sent[i].delivered
    /\ last_daily_report_date = Date(now)
    /\ Date(now) = 1
    /\ reports[0] = 0
    /\ daily_stats.checks_today = 1

\* C14: in every reachable state average_response_time is the arithmetic
\* mean of response_times when response_times is not empty, and 0 when it is
\* empty
C14_AverageIsMean ==
    LET rts == daily_stats.response_times
        avg == daily_stats.average_response_time
    IN  IF rts = << >>
          THEN avg.num = 0
          ELSE avg.num * Len(rts) = SumSeq(rts) * avg.den

\* C14, witness: the samples 100, 200 and 300 ms (in hundredths of a
\* millisecond) give the average 200 ms
C14_Witness ==
    /\ daily_stats.response_times = <<10000, 20000, 30000>>
    /\ daily_stats.average_response_time.num
         = 20000 * daily_stats.average_response_time.den

\* C15: the uptime percentage of the daily report is
\* 100 - errors_today / max(checks_today, 1) * 100: with no checks it is 100,
\* with 100 checks and 5 errors it is 95, and it lies in [0, 100]
C15_UptimePercentage ==
    [][pc' = "reported" =>
        LET u == sent'[1].uptime
            c == daily_stats.checks_today
            e == daily_stats.errors_today
            d == IF c = 0 THEN 1 ELSE c
        IN  /\ u.den > 0
            /\ u.num * d = (100 * d - 100 * e) * u.den
            /\ c = 0 => u.num = 100 * u.den
            /\ (c = 100 /\ e = 5) => u.num = 95 * u.den
            /\ 0 <= u.num
            /\ u.num <= 100 * u.den]_vars

\* C15, witness: the report of 100 checks with 5 errors shows 95
C15_Witness ==
    /\ pc = "reported"
    /\ sent[1].checks = 100
    /\ sent[1].errors = 5
    /\ sent[1].uptime.num = 95 * sent[1].uptime.den

\* the monitoring state: last_status, consecutive_failures,
\* last_daily_report_date and the statistics
Monitoring(m) ==
    <<m.ls, m.cf, m.ldrd, m.stats>>

\* C16: a notification that is not delivered neither ends the loop nor
\* changes the monitoring state: from the same state, with the same probe
\* outcomes and clock, an iteration leaves the same last_status,
\* consecutive_failures, last_daily_report_date and statistics with the
\* POSTs delivered and with the POSTs failing, and an iteration whose
\* notifications were not delivered goes on to the sleep unless it is
\* cancelled
C16_DeliveryFailureChangesNothing ==
    /\ [](pc = "top" =>
            \A inp \in Inputs(LastStage) :
              Monitoring(Run(LastStage, Machine, [inp EXCEPT !.delivered = TRUE]))
                = Monitoring(Run(LastStage, Machine, [inp EXCEPT !.delivered = FALSE])))
    /\ [][(/\ pc = "top"
           /\ sent' # << >>
           /\ \A i \in DOMAIN sent' :
                ~sent'[i].delivered /\ sent'[i].body # StoppedMessage.body)
          => pc' = "sleeping"]_vars

\* C16, witness: the daily report and the warning of one iteration were both
\* not delivered, the date of the report is set, the statistics are reset
\* and hold the check, and the loop sleeps
C16_Witness ==
    /\ pc = "sleeping"
    /\ Len(sent) = 2
    /\ \A i \in DOMAIN sent : ~sent[i].delivered
    /\ sent[2].severity = "WARNING"
    /\ last_daily_report_date = Date(now)
    /\ daily_stats.checks_today = 1
    /\ last_status = "warning"

\* the 'monitoring stopped' notifications among msgs
StoppedNotices(msgs) ==
    {i \in DOMAIN msgs :
       msgs[i].severity = "INFO" /\ msgs[i].body = StoppedMessage.body}

\* C17: a KeyboardInterrupt at any point after startup (in an iteration, in
\* the sleep of the loop, in the sleep that follows a caught unexpected
\* Exception) ends the loop cleanly: wherever the loop has ended, it has
\* ended in the handler of KeyboardInterrupt, which has sent exactly one
\* INFO 'monitoring stopped' notification
C17_CancellationExitsCleanly ==
    pc \in {"stopped", "crashed"}
      => /\ pc = "stopped"
         /\ Cardinality(StoppedNotices(sent)) = 1

\* the 'Monitor error' notifications among msgs
MonitorErrorNotices(msgs) ==
    {i \in DOMAIN msgs :
       msgs[i].severity = "ERROR" /\ msgs[i].body = MonitorErrorMessage.body}

\* C18: without cancellation the loop never ends: an unexpected Exception
\* raised in an iteration is caught and reported with one ERROR 'Monitor
\* error' notification, the handler sleeps, and the loop then is at the top
\* of a further iteration; the sleep of the loop leads to the top as well
C18_LoopSurvivesFailures ==
    /\ [][MonitorErrorNotices(sent') # {}
          => /\ pc = "top"
             /\ pc' = "errsleeping"
             /\ Cardinality(MonitorErrorNotices(sent')) = 1]_vars
    /\ [](pc \notin {"stopped", "crashed"})
    /\ (pc = "errsleeping") ~> (pc = "top")
    /\ (pc = "sleeping") ~> (pc = "top")

\* C18, witness: after an iteration that failed, a further iteration has
\* failed too, and the handler sleeps
C18_Witness ==
    /\ pc = "errsleeping"
    /\ Cardinality(MonitorErrorNotices(sent)) = 1
    /\ daily_stats.checks_today = 2
    /\ consecutive_failures = 2
    /\ last_status = None

\* the fields of the configuration that are missing, empty or still their
\* placeholder
Offending ==
    {f \in FieldSet :
       config[f] = None \/ config[f] = "" \/ config[f] = Placeholder(f)}

\* C19: validate_config runs before any notification is sent and before the
\* loop starts; with a field missing, empty or still its placeholder it
\* prints one error for each such field and exits with code 1, and the loop
\* is never started; with all four fields set it does not exit
C19_ValidateBeforeStart ==
    /\ pc = "main" => sent = << >>
    /\ pc = "exit 1"
         => /\ Offending # {}
            /\ {printed[i] : i \in DOMAIN printed} = Offending
            /\ Len(printed) = Cardinality(Offending)
            /\ sent = << >>
    /\ pc \notin {"main", "exit 1"}
         => /\ Offending = {}
            /\ printed = << >>

\* C19, witness: with the key empty and the chat id still its placeholder,
\* two errors are printed and the program has exited
C19_Witness ==
    /\ pc = "exit 1"
    /\ config["SUPABASE_KEY"] = ""
    /\ config["TELEGRAM_CHAT_ID"] = "your_telegram_chat_id_here"
    /\ printed = <<"SUPABASE_KEY", "TELEGRAM_CHAT_ID">>

\* the recovery notifications among msgs
RecoveryNotices(msgs) ==
    {i \in DOMAIN msgs : msgs[i].body = "Supabase API is back online!"}

\* C20: an iteration that completes assigns last_status once, the
\* classification of the iteration, after the alert logic: up to the
\* assignment last_status is the value the iteration started with, nothing is
\* sent after it, and the alert logic decides on the last_status of the
\* iteration's start, which no step other than the assignment changes
C20_StatusAssignedAfterAlerts ==
    /\ [](pc = "top"
            => \A inp \in Inputs(LastStage) :
                 /\ \A k \in 0..(LastStage - 1) :
                      Run(k, Machine, inp).ls = last_status
                 /\ Run(LastStage, Machine, inp).ls
                      = check_supabase_health(inp.resp).status
                 /\ Run(LastStage, Machine, inp).out
                      = Run(LastStage - 2, Machine, inp).out)
    /\ [][TickStep
            => /\ last_status' = health_status'.status
               /\ RecoveryNotices(sent') # {}
                    <=> /\ last_status \in {"error", "warning"}
                        /\ health_status'.status = "healthy"]_vars
    /\ [][last_status' # last_status
            => /\ pc = "top"
               /\ last_status' = health_status'.status]_vars

\* C20, witness: an iteration has classified the backend as healthy and has
\* sent the recovery notification, decided on the last_status it started with
C20_Witness ==
    /\ pc = "sleeping"
    /\ last_status = "healthy"
    /\ health_status.status = "healthy"
    /\ RecoveryNotices(sent) # {}
    /\ daily_stats.errors_today + daily_stats.warnings_today > 0

\* C21: after every iteration consecutive_failures is the number of
\* iterations classified error in a row up to and including it, and an
\* iteration sends the ERROR alert exactly when that number is 1 or a
\* multiple of 5 (in a run of five error iterations: the first and the fifth)
C21_FailuresCountTheErrorRun ==
    /\ [](pc = "sleeping" => consecutive_failures = error_run)
    /\ [][TickStep
            => /\ WithSeverity(sent', "ERROR") # {}
                    <=> \/ error_run' = 1
                        \/ error_run' > 0 /\ error_run' % 5 = 0
               /\ \A i \in WithSeverity(sent', "ERROR") :
                    sent'[i].failures = error_run']_vars

\* C21, witness: the fifth error iteration in a row has sent the ERROR alert
\* and consecutive_failures is 5
C21_Witness ==
    /\ pc = "sleeping"
    /\ error_run = 5
    /\ consecutive_failures = 5
    /\ \E i \in WithSeverity(sent, "ERROR") : sent[i].failures = 5

\* C22: the recovery notification of an iteration carries, as 'Previous
\* consecutive failures', the number of error iterations in a row of the
\* outage the iteration ends, warning iterations before it included
C22_RecoveryCarriesOutageFailures ==
    [][TickStep
         => \A i \in RecoveryNotices(sent') :
              sent'[i].failures = outage_errors]_vars

\* C23: when an iteration has ended, completed or aborted by an unexpected
\* Exception that the loop caught, consecutive_failures is positive if and
\* only if last_status is error
C23_FailuresIffLastStatusError ==
    pc \in {"sleeping", "errsleeping"}
      => (consecutive_failures > 0 <=> last_status = "error")

\* the counters of the statistics
Counters(stats) ==
    <<stats.checks_today, stats.errors_today, stats.warnings_today,
      stats.total_downtime_minutes, Len(stats.response_times)>>

\* C24: in every state of the statistics errors_today + warnings_today and
\* the number of response_times are at most checks_today, no counter is
\* negative, total_downtime_minutes is errors_today * (CHECK_INTERVAL / 60),
\* and a step that does not call reset_daily_stats decreases no counter
C24_StatisticsConsistent ==
    /\ [](/\ daily_stats.errors_today + daily_stats.warnings_today
               <= daily_stats.checks_today
          /\ Len(daily_stats.response_times) <= daily_stats.checks_today
          /\ \A i \in DOMAIN Counters(daily_stats) : Counters(daily_stats)[i] >= 0
          /\ daily_stats.total_downtime_minutes
               = daily_stats.errors_today * (CHECK_INTERVAL \div 60))
    /\ [][~(pc = "top" /\ ReportCondition(Machine))
            => \A i \in DOMAIN Counters(daily_stats) :
                 Counters(daily_stats')[i] >= Counters(daily_stats)[i]]_vars

\* C24, witness: statistics of an error, a warning and a healthy check, and
\* of a check that recorded no latency
C24_Witness ==
    /\ pc = "sleeping"
    /\ daily_stats.errors_today >= 1
    /\ daily_stats.warnings_today >= 1
    /\ daily_stats.checks_today
         > daily_stats.errors_today + daily_stats.warnings_today
    /\ Len(daily_stats.response_times) \in 1..(daily_stats.checks_today - 1)
    /\ daily_stats.total_downtime_minutes > 0

\* an ERROR, WARNING or INFO notification
IsAlert(msg) == msg.severity \in {"ERROR", "WARNING", "INFO"}

\* the alerts among msgs, in order, each without the time it was stamped with
Alerts(msgs) ==
    LET alerts == SelectSeq(msgs, IsAlert)
    IN  [i \in DOMAIN alerts |->
           [severity |-> alerts[i].severity, body |-> alerts[i].body,
            failures |-> alerts[i].failures, failed |-> alerts[i].failed,
            delivered |-> alerts[i].delivered]]

\* C25: on the same outcomes of the primary and the auxiliary probes, the
\* monitor of app.py and the monitor with the daily report send the same
\* ERROR, WARNING and INFO alerts in every iteration and have the same
\* last_status and consecutive_failures after it; the notifications the
\* daily report adds are DAILY_SUCCESS only
C25_SameAlertsAsApp ==
    pc = "sleeping"
      => /\ Alerts(sent) = Alerts(app.out)
         /\ Len(app.out) = Len(Alerts(app.out))
         /\ Len(sent) = Len(Alerts(sent))
                          + Cardinality(WithSeverity(sent, "DAILY_SUCCESS"))
         /\ app.last_status = last_status
         /\ app.consecutive_failures = consecutive_failures

\* C25, witness: an iteration has sent the daily report and then the ERROR
\* alert of a first failure, which alone the monitor of app.py has sent
C25_Witness ==
    /\ pc = "sleeping"
    /\ Len(sent) = 2
    /\ sent[1].severity = "DAILY_SUCCESS"
    /\ sent[2].severity = "ERROR"
    /\ Len(app.out) = 1
    /\ app.out[1].severity = "ERROR"
    /\ app.consecutive_failures = 1

====
